---- MODULE Spec2Model ----
(***************************************************************************)
(* nodes-monitor (monitor.py): log into a switch, discover the end         *)
(* stations attached to the configured interfaces, resolve their names,    *)
(* then ping every addressable station in an endless loop and rewrite the  *)
(* table file output_table.txt after every ping.                           *)
(*                                                                         *)
(* Text that the program parses is a sequence of one-character strings, so *)
(* that the regular expressions and str.split act on characters as they do *)
(* in the program.  Python's None is the value None.                       *)
(***************************************************************************)
EXTENDS Integers, Sequences, FiniteSets, TLC

VARIABLES
    pc,      \* position of the main program, or of a function harness
    ssh,     \* Device.ssh: None, or "session" while logged in
    nodes,   \* Device.nodes: the list of Node objects
    todo,    \* interfaces of INTERFACES not yet given to create_attached_nodes
    rows,    \* Table.rows
    it,      \* position of the iterator of `for node in device.nodes`
    index,   \* the monitor loop's own counter `index` (0-based, as in Python)
    cycle,   \* completed passes of `while True`
    clock,   \* the wall clock read by datetime.now()
    start,   \* the variable `start`
    file,    \* output_table.txt
    call,    \* function harnesses: the argument of the function applied
    ret      \* function harnesses: its result

vars == <<pc, ssh, nodes, todo, rows, it, index, cycle, clock, start, file, call, ret>>

None == "None"

(***************************************************************************)
(* Characters, and the character classes of Python's re module.            *)
(***************************************************************************)
\* \d
Digit == {"0", "1", "2", "3", "4", "5", "6", "7", "8", "9"}

\* the class [0-9a-f\.] of the mac_address group
HexDot == Digit \cup {"a", "b", "c", "d", "e", "f", "."}

\* \s
Space == {" ", "\t", "\n", "\r", "\f"}

NL == "\n"

\* the str made of the characters cs
RECURSIVE Str(_)
Str(cs) == IF cs = <<>> THEN "" ELSE Head(cs) \o Str(Tail(cs))

\* the text from position i on (1-based); empty when i is past the end
From(cs, i) == IF i > Len(cs) THEN <<>> ELSE SubSeq(cs, i, Len(cs))

\* the character at position i, "" past the end of the text
At(cs, i) == IF i \in 1..Len(cs) THEN cs[i] ELSE ""

\* the least member of a non-empty set of positions
first(positions) == CHOOSE i \in positions : \A j \in positions : i <= j

\* how many characters of cs from position i on are in class, up to the
\* first that is not: a greedy class+ or class*
Run(cs, i, class) ==
    LET others == {j \in i..Len(cs) : cs[j] \notin class}
    IN  IF others = {} THEN (IF i > Len(cs) THEN 0 ELSE Len(cs) - i + 1)
        ELSE first(others) - i

\* position of the first c in cs, 0 when there is none
find(cs, c) ==
    LET hits == {j \in 1..Len(cs) : cs[j] = c}
    IN  IF hits = {} THEN 0 ELSE first(hits)

\* str.split("\n"): the pieces between line breaks; "" gives one empty piece
RECURSIVE split(_)
split(cs) ==
    LET k == find(cs, NL)
    IN  IF k = 0 THEN <<cs>>
        ELSE <<SubSeq(cs, 1, k - 1)>> \o split(From(cs, k + 1))

\* "\n".join(lines): how the device's answer is put together from its lines
RECURSIVE join(_)
join(lines) ==
    IF lines = <<>> THEN <<>>
    ELSE IF Len(lines) = 1 THEN Head(lines)
    ELSE Head(lines) \o <<NL>> \o join(Tail(lines))

(***************************************************************************)
(* Device.create_attached_nodes: the two parsers.                          *)
(***************************************************************************)
NoMatch == [matched |-> FALSE, vlan |-> "", mac_address |-> "", ip_address |-> ""]

\* mac_match_line with the marker left unchecked
mac_match_line_any_marker(line) ==
    LET d == Run(line, 3, Digit)
        w == Run(line, 3 + d, Space)
        m == 3 + d + w
    IN  IF /\ At(line, 2) \in Space
           /\ d >= 1
           /\ w >= 1
           /\ \A j \in m..(m + 13) : At(line, j) \in HexDot
        THEN [matched |-> TRUE, vlan |-> Str(SubSeq(line, 3, 2 + d)),
              mac_address |-> Str(SubSeq(line, m, m + 13)), ip_address |-> ""]
        ELSE NoMatch

\* re.compile(r"^\*\s(?P<vlan>\d+)\s+(?P<mac_address>[0-9a-f\.]{14})").match(line)
\* \d+ and \s+ are greedy; what follows each is of a disjoint class, so the
\* greedy run is the only way to match.
mac_match_line(line) ==
    LET d == Run(line, 3, Digit)
        w == Run(line, 3 + d, Space)
        m == 3 + d + w
    IN  IF /\ At(line, 1) = "*"
           /\ At(line, 2) \in Space
           /\ d >= 1
           /\ w >= 1
           /\ \A j \in m..(m + 13) : At(line, j) \in HexDot
        THEN [matched |-> TRUE, vlan |-> Str(SubSeq(line, 3, 2 + d)),
              mac_address |-> Str(SubSeq(line, m, m + 13)), ip_address |-> ""]
        ELSE NoMatch

\* matching_pairs that keeps one pair per MAC address
RECURSIVE matching_pairs_deduplicating(_)
matching_pairs_deduplicating(lines) ==
    IF lines = <<>> THEN <<>>
    ELSE LET match == mac_match_line(Head(lines))
             rest == matching_pairs_deduplicating(Tail(lines))
         IN  (IF match.matched
                 /\ \A j \in 1..Len(rest) : rest[j].mac_address # match.mac_address
              THEN <<[vlan |-> match.vlan, mac_address |-> match.mac_address]>>
              ELSE <<>>) \o rest

\* the (vlan, mac_address) pairs of the lines that match, in line order
RECURSIVE matching_pairs(_)
matching_pairs(lines) ==
    IF lines = <<>> THEN <<>>
    ELSE LET match == mac_match_line(Head(lines))
         IN  (IF match.matched
              THEN <<[vlan |-> match.vlan, mac_address |-> match.mac_address]>>
              ELSE <<>>) \o matching_pairs(Tail(lines))

\* get_vlan_and_mac_addresses, given the answer to "show mac address-table interface"
get_vlan_and_mac_addresses(output) == matching_pairs(split(output))

\* re.compile(r"^(?P<ip_address>\d{1,3}\.\d{1,3}\.\d{1,3}\.\d{1,3})\s+
\*              (?P<age>\d{2}:\d{2}:\d{2})\s+").match(text)
\* match() tries the pattern at the start of text only, and ^ without
\* re.MULTILINE is the start of text too.
arp_match_line(text) ==
    LET a == Run(text, 1, Digit)
        b == Run(text, a + 2, Digit)
        c == Run(text, a + b + 3, Digit)
        d == Run(text, a + b + c + 4, Digit)
        e == a + b + c + d + 3
        w == Run(text, e + 1, Space)
        g == e + w + 1
    IN  IF /\ {a, b, c, d} \subseteq 1..3
           /\ At(text, a + 1) = "."
           /\ At(text, a + b + 2) = "."
           /\ At(text, a + b + c + 3) = "."
           /\ w >= 1
           /\ \A j \in {g, g + 1, g + 3, g + 4, g + 6, g + 7} : At(text, j) \in Digit
           /\ At(text, g + 2) = ":"
           /\ At(text, g + 5) = ":"
           /\ Run(text, g + 8, Space) >= 1
        THEN [matched |-> TRUE, vlan |-> "", mac_address |-> "",
              ip_address |-> Str(SubSeq(text, 1, e))]
        ELSE NoMatch

\* get_ip_address, given the answer to "show ip arp | include <mac_address>";
\* a function that ends without return gives None
get_ip_address(output) ==
    LET match == arp_match_line(output)
    IN  IF match.matched THEN match.ip_address ELSE None

(***************************************************************************)
(* Node                                                                    *)
(***************************************************************************)
\* Node.__init__
Node(mac_address, ip_address, interface, vlan) ==
    [mac_address |-> mac_address, ip_address |-> ip_address,
     interface |-> interface, vlan |-> vlan, name |-> None,
     last_ping_successful |-> FALSE, successful_pings |-> 0, failed_pings |-> 0]

\* __str__ without the fall back to the address
node_str_name_only(node) == node.name

\* Node.__str__
node_str(node) == IF node.name # None THEN node.name ELSE node.ip_address

\* ping that counts a failed ping as a successful one
ping_counting_successes_only(node, response) ==
    IF response = 0
    THEN [node EXCEPT !.last_ping_successful = TRUE,
                      !.successful_pings = @ + 1]
    ELSE [node EXCEPT !.last_ping_successful = FALSE,
                      !.successful_pings = @ + 1]

\* ping that does not count a failed ping
ping_dropping_failures(node, response) ==
    IF response = 0
    THEN [node EXCEPT !.last_ping_successful = TRUE,
                      !.successful_pings = @ + 1]
    ELSE [node EXCEPT !.last_ping_successful = FALSE]

\* Node.ping, given the exit status of os.system("ping -n 1 -w 2 ...")
ping(node, response) ==
    IF response = 0
    THEN [node EXCEPT !.last_ping_successful = TRUE,
                      !.successful_pings = @ + 1]
    ELSE [node EXCEPT !.last_ping_successful = FALSE,
                      !.failed_pings = @ + 1]

\* Node.nslookup, given what socket.gethostbyaddr did: a host name, or None
\* when it raised
nslookup(node, answer) == [node EXCEPT !.name = answer]

\* round_tenths that cuts the digits off instead of rounding
round_tenths_truncating(num, den) == (1000 * num) \div den

\* round(num / den * 100, 1) in tenths of a percent: the nearest tenth, a tie
\* going to the even one.  The floats num / den * 100 of the counts used
\* here round to the same tenth as the exact quotient.
round_tenths(num, den) ==
    LET q == (1000 * num) \div den
        r == (1000 * num) % den
    IN  IF 2 * r < den THEN q
        ELSE IF 2 * r > den THEN q + 1
        ELSE IF q % 2 = 0 THEN q ELSE q + 1

\* str() of a float that is a whole number of tenths: "100.0", "33.3", "0.0"
float_str(tenths) == ToString(tenths \div 10) \o "." \o ToString(tenths % 10)

\* response_rate that guards the division only
response_rate_unless_unprobed(node) ==
    IF node.successful_pings + node.failed_pings = 0
    THEN "0%"
    ELSE float_str(round_tenths(node.successful_pings,
                                node.successful_pings + node.failed_pings)) \o "%"

\* Node.response_rate
response_rate(node) ==
    IF node.successful_pings = 0
    THEN "0%"
    ELSE float_str(round_tenths(node.successful_pings,
                                node.successful_pings + node.failed_pings)) \o "%"

(***************************************************************************)
(* Table                                                                   *)
(***************************************************************************)
\* the list both pre_populate_table and update_row build from a node
row_of(node) ==
    <<node.interface, node.vlan, node.mac_address, node.ip_address, node.name,
      response_rate(node)>>

\* Table.pre_populate_table: one row appended per node, in list order
RECURSIVE pre_populate_table(_, _)
pre_populate_table(table_rows, node_list) ==
    IF node_list = <<>> THEN table_rows
    ELSE pre_populate_table(Append(table_rows, row_of(Head(node_list))),
                            Tail(node_list))

\* update_row that leaves the response rate of the row as it was
update_row_keeping_rate(table_rows, node, i) ==
    [table_rows EXCEPT ![i + 1] =
        <<node.interface, node.vlan, node.mac_address, node.ip_address, node.name, @[6]>>]

\* Table.update_row: self.rows[index] = [...], index counted from 0
update_row(table_rows, node, i) ==
    [table_rows EXCEPT ![i + 1] = row_of(node)]

\* Table.headers
headers == <<"Interface", "VLAN", "MAC Address", "IP Address", "Name", "Response Rate">>

\* Table.save writes three pieces into the file it has just opened with "w"
stamp_piece(from, to) == [kind |-> "stamp", start |-> from, end |-> to, rows |-> <<>>, headers |-> <<>>]
blank_piece == [kind |-> "blank", start |-> 0, end |-> 0, rows |-> <<>>, headers |-> <<>>]
table_piece(table_rows) ==
    [kind |-> "table", start |-> 0, end |-> 0, rows |-> table_rows, headers |-> headers]

NoFile == [exists |-> FALSE, content |-> <<>>]

\* open("output_table.txt", "a"): the file keeps what it holds
opened_for_append(f) == [f EXCEPT !.exists = TRUE]

\* open("output_table.txt", "w"): the file is there and empty
opened(f) == [exists |-> TRUE, content |-> <<>>]

\* f.writelines(piece)
written(f, piece) == [f EXCEPT !.content = Append(@, piece)]

\* Table.save from its first line to its last
save(f, table_rows, from, to) ==
    written(written(written(opened(f), stamp_piece(from, to)), blank_piece),
            table_piece(table_rows))

(***************************************************************************)
(* What the outside world may answer.                                      *)
(***************************************************************************)
\* config.INTERFACES
INTERFACES == <<"Po6", "Po7">>

\* passes of `while True` that are explored
MaxCycles == 2

\* lines per answer in the parser harnesses
MaxLines == 3

\* counts up to which response_rate is explored, and a long outage
MaxCount == 16
ManyFailures == 2000

\* lines of "show mac address-table interface ..."
LineSpecExample ==
    <<"*", " ", " ", "4", " ", " ", " ", " ", " ", " ", " ", " ", "0", "0", "5", "0", ".", "5",
      "6", "9", "f", ".", "0", "c", "6", "0", " ", " ", " ", " ", "d", "y", "n", "a", "m", "i",
      "c", " ", " ", " ", " ", " ", "~", "~", "~", " ", " ", " ", " ", " ", " ", "F", " ", " ",
      " ", " ", "F", " ", " ", "P", "o", "6">>

LineCodeComment ==
    <<"*", " ", "4", " ", " ", " ", " ", " ", " ", " ", " ", "0", "0", "5", "0", ".", "5", "6",
      "9", "f", ".", "0", "c", "6", "0", " ", " ", " ", " ", "d", "y", "n", "a", "m", "i", "c",
      " ", " ", " ", " ", " ", "~", "~", "~", " ", " ", " ", " ", " ", " ", "F", " ", " ", " ",
      " ", "F", " ", " ", "P", "o", "6">>

LineSecondEntry ==
    <<"*", " ", "1", "2", " ", " ", " ", " ", " ", " ", " ", "0", "0", "5", "0", ".", "5", "6",
      "9", "f", ".", "0", "c", "6", "1", " ", " ", " ", " ", "d", "y", "n", "a", "m", "i", "c",
      " ", " ", " ", " ", " ", "~", "~", "~", " ", " ", " ", " ", " ", " ", "F", " ", " ", " ",
      " ", "F", " ", " ", "P", "o", "6">>

LineHeader ==
    <<" ", " ", " ", "V", "L", "A", "N", " ", " ", " ", " ", " ", "M", "A", "C", " ", "A", "d",
      "d", "r", "e", "s", "s", " ", " ", " ", " ", " ", " ", "T", "y", "p", "e", " ", " ", " ",
      " ", " ", " ", "a", "g", "e", " ", " ", " ", " ", " ", "S", "e", "c", "u", "r", "e", " ",
      "N", "T", "F", "Y", " ", "P", "o", "r", "t", "s">>

LineNoMarker ==
    <<" ", " ", "4", " ", " ", " ", " ", " ", " ", " ", " ", "0", "0", "5", "0", ".", "5", "6",
      "9", "f", ".", "0", "c", "6", "2", " ", " ", " ", " ", "s", "t", "a", "t", "i", "c", " ",
      " ", " ", " ", " ", " ", "-", " ", " ", " ", " ", " ", " ", " ", " ", "F", " ", " ", " ",
      " ", "F", " ", " ", "P", "o", "6">>

ArpLineComment ==
    <<"1", "0", ".", "2", "5", ".", "5", ".", "3", "7", " ", " ", " ", " ", " ", " ", "0", "0",
      ":", "0", "8", ":", "3", "1", " ", " ", "0", "0", "5", "0", ".", "5", "6", "9", "f", ".",
      "0", "c", "6", "0", " ", " ", "V", "l", "a", "n", "4">>

ArpLineOther ==
    <<"1", "0", ".", "2", "5", ".", "5", ".", "1", "3", "8", " ", " ", " ", " ", " ", "0", "0",
      ":", "0", "0", ":", "0", "7", " ", " ", "0", "0", "5", "0", ".", "5", "6", "9", "f", ".",
      "0", "c", "6", "1", " ", " ", "V", "l", "a", "n", "1", "2">>

ArpLineHeader ==
    <<"A", "d", "d", "r", "e", "s", "s", " ", " ", " ", " ", " ", " ", " ", " ", " ", "A", "g",
      "e", " ", " ", " ", " ", " ", " ", " ", "M", "A", "C", " ", "A", "d", "d", "r", "e", "s",
      "s", " ", " ", " ", " ", " ", "I", "n", "t", "e", "r", "f", "a", "c", "e">>

ArpLineNoAge ==
    <<"1", "0", ".", "2", "5", ".", "5", ".", "3", "9", " ", " ", " ", " ", " ", " ", "-", " ",
      " ", " ", " ", " ", " ", " ", " ", " ", "0", "0", "5", "0", ".", "5", "6", "9", "f", ".",
      "0", "c", "6", "2", " ", " ", "V", "l", "a", "n", "4">>

BlankLine == <<>>

MacLines ==
    {LineSpecExample, LineCodeComment, LineSecondEntry, LineHeader, LineNoMarker, BlankLine}

ArpLines == {ArpLineComment, ArpLineOther, ArpLineHeader, ArpLineNoAge, BlankLine}

\* every list of at most n lines out of the set lines
ListsUpTo(lines, n) == UNION {[1..k -> lines] : k \in 0..n}

\* the answers the main program is run against
MacOutputs ==
    {join(<<LineHeader, LineCodeComment>>),
     join(<<LineCodeComment, LineSecondEntry>>),
     join(<<LineHeader>>)}

ArpOutputs == {ArpLineComment, <<>>}

\* what socket.gethostbyaddr(...)[0] gives when it does not raise
HostNames == {"station.example.net"}

(***************************************************************************)
(* The main program.                                                       *)
(***************************************************************************)
Init ==
    /\ pc = "connect"
    /\ ssh = None
    /\ nodes = <<>>
    /\ todo = INTERFACES
    /\ rows = <<>>
    /\ it = 0
    /\ index = 0
    /\ cycle = 0
    /\ clock = 0
    /\ start = None
    /\ file = NoFile
    /\ call = <<>>
    /\ ret = <<>>

\* Device.connect: ConnectHandler(...) gives a session
Connect ==
    /\ pc = "connect"
    /\ ssh' = "session"
    /\ pc' = "discover"
    /\ UNCHANGED <<nodes, todo, rows, it, index, cycle, clock, start, file, call, ret>>

\* ConnectFails with the exception caught and the run going on
ConnectFails_swallowed ==
    /\ pc = "connect"
    /\ pc' = "discover"
    /\ UNCHANGED <<ssh, nodes, todo, rows, it, index, cycle, clock, start, file, call, ret>>

\* Device.connect: ConnectHandler(...) raises; nothing catches it
ConnectFails ==
    /\ pc = "connect"
    /\ pc' = "crashed"
    /\ UNCHANGED <<ssh, nodes, todo, rows, it, index, cycle, clock, start, file, call, ret>>

\* the body of Device.create_attached_nodes after the first k address lookups
create_attached_nodes(node_list, interface, pairs, answers, k) ==
    node_list \o [j \in 1..k |->
                    Node(pairs[j].mac_address, get_ip_address(answers[j]),
                         interface, pairs[j].vlan)]

\* one turn of `for interface in INTERFACES`
CreateAttachedNodes ==
    /\ pc = "discover"
    /\ todo # <<>>
    /\ \E output \in MacOutputs :
         LET pairs == get_vlan_and_mac_addresses(output)
         IN  \E answers \in [1..Len(pairs) -> ArpOutputs] :
               nodes' = create_attached_nodes(nodes, Head(todo), pairs, answers, Len(pairs))
    /\ todo' = Tail(todo)
    /\ UNCHANGED <<pc, ssh, rows, it, index, cycle, clock, start, file, call, ret>>

\* a send_command of create_attached_nodes raises: the address-table query
\* (pairs is empty then) or the lookup after k nodes; nothing catches it
CommandFails ==
    /\ pc = "discover"
    /\ todo # <<>>
    /\ \E output \in MacOutputs \cup {<<>>} :
         LET pairs == get_vlan_and_mac_addresses(output)
         IN  \E answers \in [1..Len(pairs) -> ArpOutputs], k \in 0..Len(pairs) :
               /\ k < Len(pairs) \/ pairs = <<>>
               /\ nodes' = create_attached_nodes(nodes, Head(todo), pairs, answers, k)
    /\ pc' = "crashed"
    /\ UNCHANGED <<ssh, todo, rows, it, index, cycle, clock, start, file, call, ret>>

\* Disconnect moved into the body of `for interface in INTERFACES`
Disconnect_inside_loop ==
    /\ pc = "discover"
    /\ ssh' = None
    /\ pc' = "resolve"
    /\ it' = 1
    /\ UNCHANGED <<nodes, todo, rows, index, cycle, clock, start, file, call, ret>>

\* Disconnect with the session left open
Disconnect_keeping_session ==
    /\ pc = "discover"
    /\ todo = <<>>
    /\ pc' = "resolve"
    /\ it' = 1
    /\ UNCHANGED <<ssh, nodes, todo, rows, index, cycle, clock, start, file, call, ret>>

\* Device.disconnect, after the last interface; then `for node in device.nodes`
Disconnect ==
    /\ pc = "discover"
    /\ todo = <<>>
    /\ ssh' = None
    /\ pc' = "resolve"
    /\ it' = 1
    /\ UNCHANGED <<nodes, todo, rows, index, cycle, clock, start, file, call, ret>>

\* ResolveName with a nslookup that lets the exception of a failed lookup out
ResolveName_raising ==
    /\ pc = "resolve"
    /\ it <= Len(nodes)
    /\ nodes[it].ip_address # None
    /\ \E answer \in HostNames \cup {None} :
         /\ nodes' = [nodes EXCEPT ![it] = nslookup(@, answer)]
         /\ pc' = IF answer = None THEN "crashed" ELSE pc
    /\ it' = it + 1
    /\ UNCHANGED <<ssh, todo, rows, index, cycle, clock, start, file, call, ret>>

\* the name loop at a node with an address: node.nslookup()
ResolveName ==
    /\ pc = "resolve"
    /\ it <= Len(nodes)
    /\ nodes[it].ip_address # None
    /\ \E answer \in HostNames \cup {None} :
         nodes' = [nodes EXCEPT ![it] = nslookup(@, answer)]
    /\ it' = it + 1
    /\ UNCHANGED <<pc, ssh, todo, rows, index, cycle, clock, start, file, call, ret>>

\* the name loop at a node without an address
SkipResolve ==
    /\ pc = "resolve"
    /\ it <= Len(nodes)
    /\ nodes[it].ip_address = None
    /\ it' = it + 1
    /\ UNCHANGED <<pc, ssh, nodes, todo, rows, index, cycle, clock, start, file, call, ret>>

\* table = Table(); table.pre_populate_table(device.nodes); start = datetime.now();
\* then the first `index = 0` of `while True`
PrePopulate ==
    /\ pc = "resolve"
    /\ it > Len(nodes)
    /\ rows' = pre_populate_table(<<>>, nodes)
    /\ start' = clock
    /\ pc' = "loop"
    /\ it' = 1
    /\ index' = 0
    /\ UNCHANGED <<ssh, nodes, todo, cycle, clock, file, call, ret>>

\* SkipNode with `continue` alone: index is not advanced
SkipNode_keeping_index ==
    /\ pc = "loop"
    /\ cycle < MaxCycles
    /\ it <= Len(nodes)
    /\ nodes[it].ip_address = None
    /\ it' = it + 1
    /\ UNCHANGED <<pc, ssh, nodes, todo, rows, index, cycle, clock, start, file, call, ret>>

\* the monitor loop at a node without an address: index += 1; continue
SkipNode ==
    /\ pc = "loop"
    /\ cycle < MaxCycles
    /\ it <= Len(nodes)
    /\ nodes[it].ip_address = None
    /\ index' = index + 1
    /\ it' = it + 1
    /\ UNCHANGED <<pc, ssh, nodes, todo, rows, cycle, clock, start, file, call, ret>>

\* PingNode without the test of the address: every node is pinged
PingNode_any_node ==
    /\ pc = "loop"
    /\ cycle < MaxCycles
    /\ it <= Len(nodes)
    /\ \E response \in {0, 1} :
         nodes' = [nodes EXCEPT ![it] = ping(@, response)]
    /\ clock' = clock + 1
    /\ pc' = "update_row"
    /\ UNCHANGED <<ssh, todo, rows, it, index, cycle, start, file, call, ret>>

\* PingNode with a ping that raises when the node does not answer
PingNode_raising_on_failure ==
    /\ pc = "loop"
    /\ cycle < MaxCycles
    /\ it <= Len(nodes)
    /\ nodes[it].ip_address # None
    /\ \E response \in {0, 1} :
         /\ nodes' = [nodes EXCEPT ![it] = ping(@, response)]
         /\ pc' = IF response = 0 THEN "update_row" ELSE "crashed"
    /\ clock' = clock + 1
    /\ UNCHANGED <<ssh, todo, rows, it, index, cycle, start, file, call, ret>>

\* the monitor loop at a node with an address: node.ping(); the ping takes time
PingNode ==
    /\ pc = "loop"
    /\ cycle < MaxCycles
    /\ it <= Len(nodes)
    /\ nodes[it].ip_address # None
    /\ \E response \in {0, 1} :
         nodes' = [nodes EXCEPT ![it] = ping(@, response)]
    /\ clock' = clock + 1
    /\ pc' = "update_row"
    /\ UNCHANGED <<ssh, todo, rows, it, index, cycle, start, file, call, ret>>

\* UpdateRow with table.save left out of the loop body
UpdateRow_skipping_save ==
    /\ pc = "update_row"
    /\ rows' = update_row(rows, nodes[it], index)
    /\ index' = index + 1
    /\ it' = it + 1
    /\ pc' = "loop"
    /\ UNCHANGED <<ssh, nodes, todo, cycle, clock, start, file, call, ret>>

\* table.update_row(node, index)
UpdateRow ==
    /\ pc = "update_row"
    /\ rows' = update_row(rows, nodes[it], index)
    /\ pc' = "save"
    /\ UNCHANGED <<ssh, nodes, todo, it, index, cycle, clock, start, file, call, ret>>

\* table.save(start, datetime.now()): open("output_table.txt", "w") empties the file
SaveOpen ==
    /\ pc = "save"
    /\ file' = [exists |-> TRUE, content |-> <<>>]
    /\ pc' = "save_stamp"
    /\ UNCHANGED <<ssh, nodes, todo, rows, it, index, cycle, clock, start, call, ret>>

\* f.writelines(f"{start} - {end}")
SaveStamp ==
    /\ pc = "save_stamp"
    /\ file' = [file EXCEPT !.content = Append(@, stamp_piece(start, clock))]
    /\ pc' = "save_blank"
    /\ UNCHANGED <<ssh, nodes, todo, rows, it, index, cycle, clock, start, call, ret>>

\* f.writelines("\n\n")
SaveBlank ==
    /\ pc = "save_blank"
    /\ file' = [file EXCEPT !.content = Append(@, blank_piece)]
    /\ pc' = "save_table"
    /\ UNCHANGED <<ssh, nodes, todo, rows, it, index, cycle, clock, start, call, ret>>

\* f.writelines(tabulate(self.rows, self.headers)), the file is closed, and
\* the loop body ends: print(...); index += 1
SaveTable ==
    /\ pc = "save_table"
    /\ file' = [file EXCEPT !.content = Append(@, table_piece(rows))]
    /\ index' = index + 1
    /\ it' = it + 1
    /\ pc' = "loop"
    /\ UNCHANGED <<ssh, nodes, todo, rows, cycle, clock, start, call, ret>>

\* the for loop is exhausted: `while True` starts over with index = 0
NextCycle ==
    /\ pc = "loop"
    /\ cycle < MaxCycles
    /\ it > Len(nodes)
    /\ cycle' = cycle + 1
    /\ it' = 1
    /\ index' = 0
    /\ UNCHANGED <<pc, ssh, nodes, todo, rows, clock, start, file, call, ret>>

MonitorPcs == {"loop", "update_row", "save", "save_stamp", "save_blank", "save_table"}

\* The process is stopped from outside while monitoring.  Inside save the
\* pieces written so far sit in the file object's buffer: a KeyboardInterrupt
\* closes the file and all of them reach the disk, a kill loses those not yet
\* flushed.
Interrupt ==
    /\ pc \in MonitorPcs
    /\ pc' = "interrupted"
    /\ \E k \in 0..Len(file.content) :
         /\ pc \notin {"save_stamp", "save_blank", "save_table"} => k = Len(file.content)
         /\ file' = [file EXCEPT !.content = SubSeq(@, 1, k)]
    /\ UNCHANGED <<ssh, nodes, todo, rows, it, index, cycle, clock, start, call, ret>>

Next ==
    \/ Connect
    \/ ConnectFails
    \/ CreateAttachedNodes
    \/ CommandFails
    \/ Disconnect
    \/ ResolveName
    \/ SkipResolve
    \/ PrePopulate
    \/ SkipNode
    \/ PingNode
    \/ UpdateRow
    \/ SaveOpen
    \/ SaveStamp
    \/ SaveBlank
    \/ SaveTable
    \/ NextCycle
    \/ Interrupt

Spec == Init /\ [][Next]_vars

\* the steps of the monitor loop itself
Monitor ==
    \/ SkipNode
    \/ PingNode
    \/ UpdateRow
    \/ SaveOpen
    \/ SaveStamp
    \/ SaveBlank
    \/ SaveTable
    \/ NextCycle

\* the program runs on as long as nothing stops it from outside
FairSpec == Spec /\ WF_vars(Monitor)

(***************************************************************************)
(* Properties of the main program.                                         *)
(***************************************************************************)
\* the table has been seeded
Seeded == pc \in MonitorPcs \cup {"interrupted"}

\* in the middle of the loop body: node `it` has been pinged in this pass
InBody == pc \in MonitorPcs \ {"loop"}

Addressable(i) == nodes[i].ip_address # None

Pings(i) == nodes[i].successful_pings + nodes[i].failed_pings

\* the row that describes a node
Projection(node) ==
    <<node.interface, node.vlan, node.mac_address, node.ip_address, node.name,
      response_rate(node)>>

\* C1: from seeding on there are as many rows as nodes, nodes without an
\* address included, and row i holds the interface, VLAN and MAC of node i.
C1_RowsAlignedWithNodes ==
    Seeded =>
        /\ Len(rows) = Len(nodes)
        /\ \A i \in 1..Len(nodes) :
             /\ rows[i][1] = nodes[i].interface
             /\ rows[i][2] = nodes[i].vlan
             /\ rows[i][3] = nodes[i].mac_address

C1_Witness ==
    /\ pc = "loop"
    /\ cycle = 1
    /\ it > Len(nodes)
    /\ Len(nodes) = 4
    /\ ~Addressable(1) /\ Addressable(2) /\ ~Addressable(3) /\ Addressable(4)
    /\ Len(rows) = 4
    /\ rows[4][6] = "50.0%"

\* C4: a node without an address is never pinged: its counts stay 0, its
\* last outcome stays false, update_row is not called for its index, its row
\* stays the seeded one, and index goes past it with the iterator.
C4_AbsentAddressNeverProbed ==
    /\ pc \in MonitorPcs => index = it - 1
    /\ \A i \in 1..Len(nodes) :
         ~Addressable(i) =>
            /\ nodes[i].successful_pings = 0
            /\ nodes[i].failed_pings = 0
            /\ nodes[i].last_ping_successful = FALSE
            /\ InBody => index + 1 # i
            /\ Seeded => rows[i] = <<nodes[i].interface, nodes[i].vlan,
                                     nodes[i].mac_address, None, None, "0%">>

C4_Witness ==
    /\ pc = "save"
    /\ cycle = 1
    /\ Len(nodes) = 3
    /\ ~Addressable(1) /\ ~Addressable(2) /\ Addressable(3)
    /\ index = 2
    /\ rows[1][6] = "0%"
    /\ rows[3][6] = "100.0%"

\* the step is a call of Node.ping
IsPing == pc = "loop" /\ pc' = "update_row"

\* C5: a call of Node.ping adds 1 to exactly one counter of that node, to
\* successful_pings with last_ping_successful true or to failed_pings with
\* last_ping_successful false, and changes no other node; no step ever
\* lowers a counter of a node.
C5_PingCountsOnce ==
    [][/\ IsPing =>
            /\ \/ nodes'[it] = [nodes[it] EXCEPT !.successful_pings = @ + 1,
                                                 !.last_ping_successful = TRUE]
               \/ nodes'[it] = [nodes[it] EXCEPT !.failed_pings = @ + 1,
                                                 !.last_ping_successful = FALSE]
            /\ Len(nodes') = Len(nodes)
            /\ \A j \in 1..Len(nodes) : j # it => nodes'[j] = nodes[j]
       /\ \A j \in 1..Len(nodes) :
            /\ j <= Len(nodes')
            /\ nodes'[j].successful_pings >= nodes[j].successful_pings
            /\ nodes'[j].failed_pings >= nodes[j].failed_pings
            /\ ~IsPing => Pings(j)' = Pings(j)]_vars

C5_Witness ==
    /\ pc = "update_row"
    /\ Len(nodes) = 2
    /\ nodes[1].successful_pings = 1 /\ nodes[1].failed_pings = 1
    /\ nodes[2].successful_pings = 0 /\ nodes[2].failed_pings = 2
    /\ ~nodes[2].last_ping_successful

\* C6: in every pass each node with an address is pinged once, in list
\* order: after `cycle` full passes it has `cycle` pings, one more when this
\* pass is already beyond it, so two such nodes differ by at most one ping
\* and the earlier is never behind the later.
C6_OncePerCycleInOrder ==
    /\ pc \in MonitorPcs =>
         \A i \in 1..Len(nodes) :
            Addressable(i) =>
               Pings(i) = cycle + (IF i < it \/ (i = it /\ InBody) THEN 1 ELSE 0)
    /\ Seeded =>
         \A i, j \in 1..Len(nodes) :
            (i < j /\ Addressable(i) /\ Addressable(j)) => Pings(i) - Pings(j) \in {0, 1}

C6_Witness ==
    /\ pc = "loop"
    /\ cycle = 2
    /\ it = 1
    /\ Len(nodes) = 3
    /\ \A i \in 1..3 : Addressable(i) /\ Pings(i) = 2

\* Table.save is under way
Saving == pc \in {"save", "save_stamp", "save_blank", "save_table"}

\* the file holds what one whole save writes
Complete(f) ==
    /\ Len(f.content) = 3
    /\ f.content[1].kind = "stamp"
    /\ f.content[2].kind = "blank"
    /\ f.content[3].kind = "table"
    /\ f.content[3].headers = headers
    /\ Len(f.content[3].rows) = Len(nodes)

\* one pass over two nodes with addresses: the first ping answered, the second not
FirstUpSecondDown ==
    /\ Len(nodes) = 2
    /\ Addressable(1) /\ Addressable(2)
    /\ cycle = 0
    /\ pc = "loop"
    /\ it = 3
    /\ nodes[1].last_ping_successful
    /\ ~nodes[2].last_ping_successful

\* C7: whenever the table is saved, every row is the projection of its node
\* as it is now, and so is every row of the file once written; after one
\* pass over two nodes, the first up and the second down, the rates saved are
\* "100.0%" and "0%".
C7_SavedRowsProjectNodes ==
    /\ Saving => \A i \in 1..Len(nodes) : rows[i] = Projection(nodes[i])
    /\ (pc = "loop" /\ file.exists) =>
          /\ Complete(file)
          /\ \A i \in 1..Len(nodes) : file.content[3].rows[i] = Projection(nodes[i])
    /\ FirstUpSecondDown =>
          /\ file.content[3].rows[1][6] = "100.0%"
          /\ file.content[3].rows[2][6] = "0%"

C7_Witness ==
    /\ FirstUpSecondDown
    /\ file.exists
    /\ file.content[1] = stamp_piece(0, 2)

\* C8: whenever the process is interrupted, within save too, the file is
\* either not written yet or a complete image: stamp, blank line, whole table.
C8_InterruptedFileComplete ==
    pc = "interrupted" => (~file.exists \/ Complete(file))

\* C12: a query that raises while one interface is discovered does not end
\* discovery: the run never stops with the session open and an interface
\* after the failing one still in todo, never queried.
C12_QueryErrorDoesNotAbort ==
    ~(pc = "crashed" /\ ssh = "session" /\ Len(todo) > 1)

\* C13: the name loop looks up exactly the nodes with an address; a lookup,
\* failed or not, lets the loop go on with the next node, sets the name to
\* the host name found or to None and changes nothing else of any node; a
\* node without an address is passed by and keeps the name None.
C13_LookupNeverRaises ==
    /\ [](\A i \in 1..Len(nodes) :
            (~Addressable(i) \/ (pc = "resolve" /\ i >= it) \/ pc \in {"discover", "crashed"})
               => nodes[i].name = None)
    /\ [][(pc = "resolve" /\ it <= Len(nodes)) =>
            /\ pc' = "resolve"
            /\ it' = it + 1
            /\ Len(nodes') = Len(nodes)
            /\ \A j \in 1..Len(nodes) : j # it => nodes'[j] = nodes[j]
            /\ IF Addressable(it)
               THEN \E name \in HostNames \cup {None} :
                       nodes'[it] = [nodes[it] EXCEPT !.name = name]
               ELSE nodes'[it] = nodes[it]]_vars

C13_Witness ==
    /\ pc = "resolve"
    /\ it = 4
    /\ Len(nodes) = 3
    /\ Addressable(1) /\ nodes[1].name = None
    /\ Addressable(2) /\ nodes[2].name \in HostNames
    /\ ~Addressable(3) /\ nodes[3].name = None

\* the lookup of node i was made and failed
LookupFailed(i) == Seeded /\ Addressable(i) /\ nodes[i].name = None

\* C14 as stated: after a failed lookup the name stays absent and what is
\* shown for the node, in the Name cell of its table row too, is its address.
C14_RowShowsAddressAsName ==
    \A i \in 1..Len(nodes) :
        LookupFailed(i) =>
            /\ node_str(nodes[i]) = nodes[i].ip_address
            /\ rows[i][5] = nodes[i].ip_address

\* C14 amended: after a failed lookup the name stays absent and str(node) is
\* the node's address; the Name cell of its table row stays absent (None),
\* the address standing in the IP Address cell only.
C14_StrFallsBackRowDoesNot ==
    \A i \in 1..Len(nodes) :
        LookupFailed(i) =>
            /\ node_str(nodes[i]) = nodes[i].ip_address
            /\ rows[i][5] = None
            /\ rows[i][4] = nodes[i].ip_address

C14_Witness ==
    /\ pc = "loop"
    /\ cycle = 1
    /\ Len(nodes) = 2
    /\ LookupFailed(1)
    /\ nodes[2].name \in HostNames
    /\ rows[1][6] = "100.0%"
    /\ rows[1][5] = None

\* interface, VLAN, MAC, address and name of a node
Identity(node) ==
    <<node.interface, node.vlan, node.mac_address, node.ip_address, node.name>>

\* C15: the phases follow one another: every interface is discovered before
\* the first name is looked up, every name is looked up before the table is
\* seeded and the first ping made, each node is passed once by the name loop,
\* and from seeding on no node is added or removed and no node's interface,
\* VLAN, MAC, address or name changes.
C15_PhasesInSequence ==
    /\ []((pc = "resolve" \/ Seeded) => todo = <<>>)
    /\ [](pc \in {"connect", "discover", "resolve", "crashed"} =>
             /\ rows = <<>>
             /\ ~file.exists
             /\ \A i \in 1..Len(nodes) : Pings(i) = 0)
    /\ [](Seeded => \A i \in 1..Len(nodes) : ~Addressable(i) => nodes[i].name = None)
    /\ [][/\ Len(nodes') # Len(nodes) => pc = "discover"
          /\ \A j \in 1..Len(nodes) :
                (j <= Len(nodes') /\ nodes'[j].name # nodes[j].name) =>
                    pc = "resolve" /\ j = it /\ it' = it + 1
          /\ (pc = "resolve" /\ pc' = "resolve") => it' = it + 1
          /\ Seeded =>
                /\ Seeded'
                /\ Len(nodes') = Len(nodes)
                /\ \A j \in 1..Len(nodes) : Identity(nodes'[j]) = Identity(nodes[j])]_vars

C15_Witness ==
    /\ pc = "save_blank"
    /\ cycle = 1
    /\ Len(nodes) = 2
    /\ nodes[1].interface = "Po6" /\ nodes[1].name \in HostNames
    /\ nodes[2].interface = "Po7" /\ ~Addressable(2)
    /\ nodes[1].successful_pings = 2

\* C16: a connect that fails ends the run at once and is not tried again:
\* no query is sent, no node made, no name looked up, no ping made and no
\* file written, and the monitor loop is never entered.
C16_ConnectFailureIsFatal ==
    /\ []((pc = "crashed" /\ ssh = None) =>
             /\ nodes = <<>>
             /\ todo = INTERFACES
             /\ rows = <<>>
             /\ it = 0
             /\ cycle = 0
             /\ clock = 0
             /\ ~file.exists)
    /\ [][/\ pc = "connect" =>
                \/ pc' = "discover" /\ ssh' = "session"
                \/ pc' = "crashed" /\ ssh' = None /\ nodes' = nodes /\ todo' = todo
          /\ pc = "crashed" => pc' = "crashed"
          /\ Len(nodes') > Len(nodes) => ssh = "session"]_vars

C16_Witness ==
    /\ pc = "crashed"
    /\ ssh = None
    /\ todo = INTERFACES
    /\ nodes = <<>>

\* C17: the monitor loop does not end by itself: whatever a ping gives, the
\* loop goes on, a finished pass is followed by a new one, and unless the
\* process is interrupted every pass explored is completed, each node with an
\* address pinged in each of them; so it is with no such node and with no node.
C17_LoopNeverEnds ==
    /\ []((pc \in MonitorPcs /\ cycle < MaxCycles) => ENABLED Monitor)
    /\ [][/\ pc \in MonitorPcs => pc' \in MonitorPcs \cup {"interrupted"}
          /\ (pc = "loop" /\ it > Len(nodes)) =>
                \/ pc' = "loop" /\ cycle' = cycle + 1 /\ it' = 1
                \/ pc' = "interrupted"]_vars
    /\ (pc \in MonitorPcs) ~>
          \/ pc = "interrupted"
          \/ /\ cycle = MaxCycles
             /\ \A i \in 1..Len(nodes) : Addressable(i) => Pings(i) = MaxCycles

C17_Witness ==
    /\ pc = "loop"
    /\ cycle = MaxCycles
    /\ Len(nodes) = 2
    /\ ~Addressable(1)
    /\ Addressable(2)
    /\ nodes[2].failed_pings = MaxCycles

RECURSIVE SumPings(_)
SumPings(node_list) ==
    IF node_list = <<>> THEN 0
    ELSE Head(node_list).successful_pings + Head(node_list).failed_pings
         + SumPings(Tail(node_list))

\* pings made so far
Probes == SumPings(nodes)

\* saves finished so far: the clock ticks once for each ping, so the end time
\* in the stamp of a whole file is the number of pings made when it was saved
Persists == IF file.exists /\ Complete(file) THEN file.content[1].end ELSE 0

\* C19: in the monitor loop a ping of node `it` is followed by one update_row
\* of row `it` and then one save before anything else is pinged; between two
\* loop bodies as many saves are finished as pings are made, inside a body
\* the save of the last ping is still to come, and while nothing has been
\* pinged nothing is saved.
C19_PingThenUpdateThenSave ==
    /\ [](Seeded => Probes = clock)
    /\ [](pc = "loop" => Persists = Probes /\ (file.exists <=> Probes > 0))
    /\ [](pc \in {"update_row", "save"} =>
             /\ Persists = Probes - 1
             /\ file.exists <=> Probes > 1)
    /\ [](pc \in {"save_stamp", "save_blank", "save_table"} =>
             /\ file.exists
             /\ Len(file.content) < 3
             /\ Len(file.content) > 0 => file.content[1].end = Probes)
    /\ [][/\ nodes' # nodes /\ Seeded =>
                /\ pc = "loop" /\ pc' = "update_row"
                /\ Pings(it)' = Pings(it) + 1
                /\ rows' = rows /\ file' = file /\ it' = it /\ index' = index
          /\ pc = "update_row" =>
                \/ /\ pc' = "save"
                   /\ rows' = [rows EXCEPT ![it] = Projection(nodes[it])]
                   /\ index + 1 = it
                   /\ nodes' = nodes /\ file' = file /\ it' = it
                \/ pc' = "interrupted"
          /\ rows' # rows /\ Seeded => pc = "update_row"
          /\ pc = "save" => pc' \in {"save_stamp", "interrupted"}
          /\ pc = "save_stamp" => pc' \in {"save_blank", "interrupted"}
          /\ pc = "save_blank" => pc' \in {"save_table", "interrupted"}
          /\ pc = "save_table" =>
                \/ pc' = "loop" /\ it' = it + 1 /\ Complete(file') /\ nodes' = nodes
                \/ pc' = "interrupted"
          /\ file' # file => pc \in {"save", "save_stamp", "save_blank", "save_table"}]_vars

C19_Witness ==
    /\ pc = "update_row"
    /\ Probes = 2
    /\ Persists = 1
    /\ Len(nodes) = 2
    /\ it = 2

\* C20: queries are sent only while the session is open: the session is
\* opened by connect alone, every interface is queried with the session open,
\* the session is closed once, after the last interface and before the first
\* name is looked up, and stays closed through name resolution and the loop.
C20_SessionLifecycle ==
    /\ [](pc = "connect" => ssh = None /\ todo = INTERFACES /\ nodes = <<>>)
    /\ [](pc = "discover" => ssh = "session")
    /\ []((pc = "resolve" \/ Seeded) => ssh = None /\ todo = <<>>)
    /\ [][/\ (todo' # todo \/ Len(nodes') # Len(nodes)) =>
                ssh = "session" /\ ssh' = "session"
          /\ (ssh # "session" /\ ssh' = "session") => pc = "connect"
          /\ (ssh = "session" /\ ssh' # "session") =>
                /\ pc = "discover" /\ pc' = "resolve"
                /\ todo = <<>>
                /\ ssh' = None
                /\ \A i \in 1..Len(nodes) : nodes[i].name = None
          /\ (ssh = None /\ pc # "connect") => ssh' = None]_vars

C20_Witness ==
    /\ pc = "resolve"
    /\ it = 2
    /\ ssh = None
    /\ Len(nodes) = 2
    /\ nodes[1].interface = "Po6"
    /\ nodes[2].interface = "Po7"
    /\ nodes[1].name \in HostNames

(***************************************************************************)
(* Function harnesses: the argument is drawn at the start, one step        *)
(* applies the function.  The main program's variables rest.               *)
(***************************************************************************)
AtRest ==
    /\ ssh = None
    /\ nodes = <<>>
    /\ todo = <<>>
    /\ rows = <<>>
    /\ it = 0
    /\ index = 0
    /\ cycle = 0
    /\ clock = 0
    /\ start = None
    /\ file = NoFile

Resting == <<ssh, nodes, todo, rows, it, index, cycle, clock, start, file, call>>

\* an address-table answer of at most MaxLines lines
InitMac ==
    /\ AtRest
    /\ pc = "call"
    /\ call \in ListsUpTo(MacLines, MaxLines)
    /\ ret = <<>>

CallGetVlanAndMacAddresses ==
    /\ pc = "call"
    /\ ret' = get_vlan_and_mac_addresses(join(call))
    /\ pc' = "returned"
    /\ UNCHANGED Resting

SpecMac == InitMac /\ [][CallGetVlanAndMacAddresses]_vars

\* an address-resolution answer of at most MaxLines lines
InitArp ==
    /\ AtRest
    /\ pc = "call"
    /\ call \in ListsUpTo(ArpLines, MaxLines)
    /\ ret = <<>>

CallGetIpAddress ==
    /\ pc = "call"
    /\ ret' = get_ip_address(join(call))
    /\ pc' = "returned"
    /\ UNCHANGED Resting

SpecArp == InitArp /\ [][CallGetIpAddress]_vars

\* a node with any counts up to MaxCount, or with ManyFailures failures
InitRate ==
    /\ AtRest
    /\ pc = "call"
    /\ \E s \in 0..MaxCount, f \in (0..MaxCount) \cup {ManyFailures} :
         call = [Node("0050.569f.0c60", "10.25.5.37", "Po6", "4")
                   EXCEPT !.successful_pings = s, !.failed_pings = f,
                          !.last_ping_successful = (f = 0 /\ s > 0)]
    /\ ret = <<>>

CallResponseRate ==
    /\ pc = "call"
    /\ ret' = response_rate(call)
    /\ pc' = "returned"
    /\ UNCHANGED Resting

SpecRate == InitRate /\ [][CallResponseRate]_vars

(***************************************************************************)
(* Properties of the pure functions.                                       *)
(***************************************************************************)
\* C2: a node without a successful ping has the response rate "0%", whatever
\* its number of failed pings.
C2_ZeroSuccessIsZeroPercent ==
    (pc = "returned" /\ call.successful_pings = 0) => ret = "0%"

C2_Witness ==
    /\ pc = "returned"
    /\ call.successful_pings = 0
    /\ call.failed_pings = ManyFailures
    /\ ret = "0%"

\* t tenths of a percent is the tenth nearest to num / den * 100, the even
\* one of the two when num / den * 100 lies half way
NearestTenth(t, num, den) ==
    LET d == 1000 * num - t * den
        twice == IF d < 0 THEN -2 * d ELSE 2 * d
    IN  /\ twice <= den
        /\ twice = den => t % 2 = 0

\* t tenths written with one decimal place and a trailing "%"
OneDecimalPercent(t) == ToString(t \div 10) \o "." \o ToString(t % 10) \o "%"

\* the response rate is the rounded quotient, one of the tenths in range
RateIn(range) ==
    (pc = "returned" /\ call.successful_pings > 0) =>
        /\ \E t \in range :
             /\ NearestTenth(t, call.successful_pings,
                             call.successful_pings + call.failed_pings)
             /\ ret = OneDecimalPercent(t)
        /\ (call.successful_pings = 1 /\ call.failed_pings = 0) => ret = "100.0%"

\* C3 as stated: with a successful ping the response rate is
\* round(successes / (successes + failures) * 100, 1) with one decimal and "%",
\* strictly above 0 and at most 100.
C3_RateAboveZero == RateIn(1..1000)

\* C3 amended: the same, but the rounded value is only at least 0: it is
\* 0.0 when fewer than one ping in two thousand succeeded.
C3_RateRounded == RateIn(0..1000)

C3_Witness ==
    /\ pc = "returned"
    /\ call.successful_pings = 1
    /\ call.failed_pings = ManyFailures
    /\ ret = "0.0%"

\* the pair the address table line holds, as a list of none or one
Pair(vlan, mac_address) == <<[vlan |-> vlan, mac_address |-> mac_address]>>

\* what is to be extracted from the lines; spec_example says whether the
\* line with two blanks after the marker counts as an entry
RECURSIVE Extracted(_, _)
Extracted(lines, spec_example) ==
    IF lines = <<>> THEN <<>>
    ELSE (CASE Head(lines) = LineCodeComment -> Pair("4", "0050.569f.0c60")
            [] Head(lines) = LineSecondEntry -> Pair("12", "0050.569f.0c61")
            [] Head(lines) = LineSpecExample /\ spec_example -> Pair("4", "0050.569f.0c60")
            [] OTHER -> <<>>) \o Extracted(Tail(lines), spec_example)

\* C10 as stated: the line "*  4        0050.569f.0c60 ..." gives VLAN 4 and
\* MAC 0050.569f.0c60, a line that does not begin with the marker gives nothing.
C10_SpecExampleExtracted ==
    pc = "returned" => ret = Extracted(call, TRUE)

\* C10 amended: the line "* 4        0050.569f.0c60 ..." (marker, exactly one
\* white-space character, VLAN number, white space, dotted-hex MAC) gives
\* VLAN 4 and MAC 0050.569f.0c60; the line with two blanks after the marker
\* and every line that does not begin with the marker give nothing.
C10_OneBlankAfterMarker ==
    pc = "returned" =>
        /\ ret = Extracted(call, FALSE)
        /\ (\A i \in 1..Len(call) : At(call[i], 1) # "*") => ret = <<>>

C10_Witness ==
    /\ pc = "returned"
    /\ call = <<LineNoMarker, LineSpecExample, LineCodeComment>>
    /\ ret = Pair("4", "0050.569f.0c60")

\* the address of the first line that has the shape "network-address, age, ..."
RECURSIVE FirstShapedLine(_)
FirstShapedLine(lines) ==
    IF lines = <<>> THEN None
    ELSE IF arp_match_line(Head(lines)).matched
         THEN arp_match_line(Head(lines)).ip_address
         ELSE FirstShapedLine(Tail(lines))

\* C9: the node's address is the one of the first line of the answer that has
\* the shape, whichever line that is, and is absent only when no line has it.
C9_FirstShapedLineWins ==
    pc = "returned" => ret = FirstShapedLine(call)

(***************************************************************************)
(* Discovery against every answer of a few lines, the answers kept in call *)
(* as the list of what the device said for each interface.                 *)
(***************************************************************************)
\* lines per address-table answer in the discovery runs
MaxEntries == 2

\* the lines the address table is made of in the discovery runs
EntryLines == {LineCodeComment, LineSecondEntry, LineHeader}

\* one turn of `for interface in INTERFACES`, the answers noted
DiscoverInterface ==
    /\ pc = "discover"
    /\ todo # <<>>
    /\ \E lines \in ListsUpTo(EntryLines, MaxEntries) :
         LET pairs == get_vlan_and_mac_addresses(join(lines))
         IN  \E answers \in [1..Len(pairs) -> ArpOutputs] :
               /\ nodes' = create_attached_nodes(nodes, Head(todo), pairs, answers, Len(pairs))
               /\ call' = Append(call, [interface |-> Head(todo), lines |-> lines,
                                        answers |-> answers])
    /\ todo' = Tail(todo)
    /\ UNCHANGED <<pc, ssh, rows, it, index, cycle, clock, start, file, ret>>

NextDiscovery ==
    \/ Connect
    \/ ConnectFails
    \/ DiscoverInterface
    \/ Disconnect

SpecDiscovery == Init /\ [][NextDiscovery]_vars

\* the address an address-resolution answer holds
Resolved(answer) == IF answer = ArpLineComment THEN "10.25.5.37" ELSE None

\* interface, VLAN, MAC and address of the nodes one interface is to yield:
\* one per entry line, in line order
ExpectedOf(said) ==
    LET entries == Extracted(said.lines, FALSE)
    IN  [j \in 1..Len(entries) |->
            <<said.interface, entries[j].vlan, entries[j].mac_address,
              Resolved(said.answers[j])>>]

\* the same for all interfaces discovered so far, in the order of discovery
RECURSIVE ExpectedNodes(_)
ExpectedNodes(heard) ==
    IF heard = <<>> THEN <<>>
    ELSE ExpectedOf(Head(heard)) \o ExpectedNodes(Tail(heard))

\* how many of the lines are entries
RECURSIVE Entries(_)
Entries(lines) ==
    IF lines = <<>> THEN 0
    ELSE (IF Head(lines) \in {LineCodeComment, LineSecondEntry} THEN 1 ELSE 0)
         + Entries(Tail(lines))

\* C11: the node list holds one node per matching line, a MAC address seen
\* twice giving two nodes, in the order of the interfaces and within an
\* interface in line order; a node whose address was not found is in the
\* list with ip_address None.
C11_OneNodePerMatchingLine ==
    pc \in {"discover", "resolve"} =>
        /\ \A k \in 1..Len(call) :
              /\ call[k].interface = INTERFACES[k]
              /\ Cardinality({i \in 1..Len(nodes) : nodes[i].interface = INTERFACES[k]})
                    = Entries(call[k].lines)
        /\ [i \in 1..Len(nodes) |->
              <<nodes[i].interface, nodes[i].vlan, nodes[i].mac_address,
                nodes[i].ip_address>>] = ExpectedNodes(call)

C11_Witness ==
    /\ pc = "resolve"
    /\ Len(call) = 2
    /\ call[1].lines = <<LineCodeComment, LineCodeComment>>
    /\ call[2].lines = <<LineHeader, LineSecondEntry>>
    /\ Len(nodes) = 3
    /\ nodes[1].mac_address = nodes[2].mac_address
    /\ nodes[1].ip_address = None
    /\ nodes[2].ip_address = "10.25.5.37"
    /\ nodes[3].interface = "Po7"

(***************************************************************************)
(* Table.save called twice on one table with the same two times.           *)
(***************************************************************************)
\* rows of the table in the save runs
MaxRows == 2

\* rows as the table holds them
SampleRows ==
    {row_of(Node("0050.569f.0c60", "10.25.5.37", "Po6", "4")),
     row_of(ping(Node("0050.569f.0c60", "10.25.5.37", "Po6", "4"), 0)),
     row_of(Node("0050.569f.0c61", None, "Po7", "12"))}

\* any table, any two times, and a file that is not there yet or was left
\* by an earlier save; call keeps that file
InitSave ==
    /\ pc = "call"
    /\ ssh = None
    /\ nodes = <<>>
    /\ todo = <<>>
    /\ rows \in ListsUpTo(SampleRows, MaxRows)
    /\ it = 0
    /\ index = 0
    /\ cycle = 0
    /\ start \in 0..MaxCycles
    /\ clock \in start..MaxCycles
    /\ file \in {NoFile, save(NoFile, <<row_of(Node("0050.569f.0c62", None, "Po6", "4"))>>, 0, 0)}
    /\ call = file
    /\ ret = <<>>

\* table.save(start, end)
CallSave ==
    /\ pc = "call"
    /\ file' = save(file, rows, start, clock)
    /\ pc' = "saved"
    /\ UNCHANGED <<ssh, nodes, todo, rows, it, index, cycle, clock, start, call, ret>>

\* table.save(start, end) once more; ret keeps the file the first call left
CallSaveAgain ==
    /\ pc = "saved"
    /\ ret' = file
    /\ file' = save(file, rows, start, clock)
    /\ pc' = "saved_again"
    /\ UNCHANGED <<ssh, nodes, todo, rows, it, index, cycle, clock, start, call>>

NextSave ==
    \/ CallSave
    \/ CallSaveAgain

SpecSave == InitSave /\ [][NextSave]_vars

\* C18: a second save of the same table with the same times leaves the file
\* as the first left it, and what a save leaves is made of its two times and
\* the rows alone, whatever the file held before.
C18_SaveOverwrites ==
    /\ pc = "saved_again" => file = ret
    /\ pc \in {"saved", "saved_again"} =>
          /\ file.exists
          /\ file.content = <<stamp_piece(start, clock), blank_piece, table_piece(rows)>>

C18_Witness ==
    /\ pc = "saved_again"
    /\ call.exists
    /\ Len(rows) = 2
    /\ file = ret
    /\ file # call

====
